---- MODULE Spec2Model ----
(***************************************************************************)
(* Model of src/app/app.js: the OAuth redirect bridge of the Salesforce    *)
(* buildpack.  Two Express routes, GET / and GET /oauth2/callback, the     *)
(* promise chain that materialises the sfdx auth url and runs the          *)
(* Salesforce CLI twice, and the handleError helper.                       *)
(*                                                                         *)
(* Strings that travel through URLs are sequences of tokens, so that the   *)
(* percent-encoding done by URLSearchParams and the decoding done by the   *)
(* query parser are real conversions.                                      *)
(***************************************************************************)
EXTENDS Integers, Sequences, FiniteSets, TLC

\* Number of request slots the express server handles at the same time.
MaxReq == 2

Reqs == 1..MaxReq

VARIABLES
    env,      \* process.env.SFDX_AUTH_URL of this process
    file,     \* vendor/sfdx/open-app-sfdxurl: [exists, content]
    alias,    \* what the CLI has stored under the alias sfdxorg
    running,  \* CLI subprocesses currently executing: <<request, command>>
    req       \* per request: handler position, locals and response

vars == <<env, file, alias, running, req>>

-----------------------------------------------------------------------------
(* JavaScript values and the environment *)

JSUndefined == "<undefined>"

\* process.env.HEROKU_APP_NAME of this instance
HEROKU_APP_NAME == "app"

EnvCred == "force://env"
RaCred == "force://ra"

\* !x for a string-or-undefined value
Falsy(x) == x \in {JSUndefined, ""}

\* values of req.query.<name> as the query parser delivers them
Undef == [t |-> "undefined", v |-> <<>>]
Str(text) == [t |-> "string", v |-> <<text>>]

RECURSIVE Join(_, _)
Join(texts, sep) ==
    IF texts = <<>> THEN <<>>
    ELSE IF Len(texts) = 1 THEN texts[1]
    ELSE texts[1] \o <<sep>> \o Join(Tail(texts), sep)

\* String(value): what JSON.parse, new URL and searchParams.append see
ToStr(val) ==
    CASE val.t = "undefined" -> <<"undefined">>
      [] val.t = "string" -> val.v[1]
      [] OTHER -> Join(val.v, ",")

-----------------------------------------------------------------------------
(* URL texts: <<scheme, host, [path], ["?", k, "=", v, "&", ...]>> *)

Schemes == {"https://", "http://"}
HostTokens == {"app.herokuapp.com", "APP.herokuapp.com", "other.herokuapp.com",
               "www.example.com", "login.salesforce.com"}
PathTokens == {"/", "/oauth2/callback", "/x", "/services/oauth2/authorize"}

\* the URL parser lowercases the host
ToLower(h) == IF h = "APP.herokuapp.com" THEN "app.herokuapp.com" ELSE h

\* application/x-www-form-urlencoded serialisation of one token
PctEncode(c) ==
    CASE c = "{" -> "%7B"
      [] c = "}" -> "%7D"
      [] c = "?" -> "%3F"
      [] c = "=" -> "%3D"
      [] c = "&" -> "%26"
      [] c = "," -> "%2C"
      [] c = "https://" -> "https%3A%2F%2F"
      [] c = "http://" -> "http%3A%2F%2F"
      [] c = "/" -> "%2F"
      [] c = "/x" -> "%2Fx"
      [] c = "/oauth2/callback" -> "%2Foauth2%2Fcallback"
      [] OTHER -> c

PctDecode(c) ==
    CASE c = "%7B" -> "{"
      [] c = "%7D" -> "}"
      [] c = "%3F" -> "?"
      [] c = "%3D" -> "="
      [] c = "%26" -> "&"
      [] c = "%2C" -> ","
      [] c = "https%3A%2F%2F" -> "https://"
      [] c = "http%3A%2F%2F" -> "http://"
      [] c = "%2F" -> "/"
      [] c = "%2Fx" -> "/x"
      [] c = "%2Foauth2%2Fcallback" -> "/oauth2/callback"
      [] OTHER -> c

Encode(text) == [i \in 1..Len(text) |-> PctEncode(text[i])]
Decode(text) == [i \in 1..Len(text) |-> PctDecode(text[i])]

RECURSIVE Split(_, _)
Split(text, sep) ==
    IF text = <<>> THEN << <<>> >>
    ELSE LET rest == Split(Tail(text), sep) IN
         IF Head(text) = sep THEN << <<>> >> \o rest
         ELSE << <<Head(text)>> \o Head(rest) >> \o Tail(rest)

\* one "k=v" segment of a query string
ParsePair(seg) ==
    [k |-> seg[1],
     v |-> IF Len(seg) >= 2 /\ seg[2] = "=" THEN Decode(SubSeq(seg, 3, Len(seg))) ELSE <<>>]

\* the query string parser: a sequence of [k, v] pairs, in order
ParseParams(text) ==
    LET segs == SelectSeq(Split(text, "&"), LAMBDA s : s # <<>>)
    IN  [i \in 1..Len(segs) |-> ParsePair(segs[i])]

RECURSIVE SerializeParams(_)
SerializeParams(ps) ==
    IF ps = <<>> THEN <<>>
    ELSE <<ps[1].k, "=">> \o Encode(ps[1].v)
         \o (IF Len(ps) > 1 THEN <<"&">> \o SerializeParams(Tail(ps)) ELSE <<>>)

InvalidURL == [ok |-> FALSE, protocol |-> "", hostname |-> "", pathname |-> "", search |-> <<>>]

\* new URL( text ): throws (ok = FALSE) when text is not an absolute URL
NewURL(text) ==
    IF Len(text) < 2 \/ text[1] \notin Schemes \/ text[2] \notin HostTokens THEN InvalidURL
    ELSE LET hasPath == Len(text) >= 3 /\ text[3] \in PathTokens
             rest == SubSeq(text, IF hasPath THEN 4 ELSE 3, Len(text))
         IN  IF rest # <<>> /\ rest[1] # "?" THEN InvalidURL
             ELSE [ok |-> TRUE,
                   protocol |-> text[1],
                   hostname |-> ToLower(text[2]),
                   pathname |-> IF hasPath THEN text[3] ELSE "/",
                   search |-> IF rest = <<>> THEN <<>> ELSE ParseParams(Tail(rest))]

\* url.searchParams.append( k, v )
SearchParamsAppend(u, k, v) == [u EXCEPT !.search = @ \o <<[k |-> k, v |-> v]>>]

\* url.toString()
URLToString(u) ==
    <<u.protocol, u.hostname, u.pathname>>
    \o (IF u.search = <<>> THEN <<>> ELSE <<"?">> \o SerializeParams(u.search))

\* req.query.<key> built by the query parser: absent, one value, or an array
QueryGet(pairs, key) ==
    LET hits == SelectSeq(pairs, LAMBDA p : p.k = key)
    IN  IF hits = <<>> THEN Undef
        ELSE IF Len(hits) = 1 THEN Str(hits[1].v)
        ELSE [t |-> "array", v |-> [i \in 1..Len(hits) |-> hits[i].v]]

-----------------------------------------------------------------------------
(* JSON texts of the authorization state: "{" redirectURL "}" *)

\* JSON.stringify( { redirectURL : u } )
JSONStringify(u) == <<"{">> \o u \o <<"}">>

JSONFail == [ok |-> FALSE, redirectURL |-> Undef]

\* JSON.parse( text ): throws SyntaxError (ok = FALSE) on anything but an object;
\* a field the object lacks reads as undefined
JSONParse(text) ==
    IF Len(text) < 2 \/ text[1] # "{" \/ text[Len(text)] # "}" THEN JSONFail
    ELSE LET inner == SubSeq(text, 2, Len(text) - 1) IN
         IF \E i \in 1..Len(inner) : inner[i] \in {"{", "}", ","} THEN JSONFail
         ELSE [ok |-> TRUE, redirectURL |-> IF inner = <<>> THEN Undef ELSE Str(inner)]

-----------------------------------------------------------------------------
(* Responses *)

NoLocation == <<>>

\* res.redirect( location )
Redirect(location) == [status |-> 302, body |-> "", location |-> location]

\* handleError( err, res ): logs err, answers with the fixed text
HandleError(err) ==
    [status |-> 403, body |-> "Unexpected internal error", location |-> NoLocation]

\* express' own handler for an exception that escapes a route handler:
\* the stack in development, the status text in production
ExpressDefaultError(err, production) ==
    [status |-> 500,
     body |-> IF production THEN "Internal Server Error" ELSE err,
     location |-> NoLocation]

-----------------------------------------------------------------------------
(* GET / *)

\* 'https://' + name + '.herokuapp.com'
HerokuOrigin(name) ==
    <<"https://", IF name = "app" THEN "app.herokuapp.com" ELSE "other.herokuapp.com">>

\* oauth2.getAuthorizationUrl( { scope : 'id' } )
GetAuthorizationUrl ==
    <<"https://", "login.salesforce.com", "/services/oauth2/authorize", "?",
      "response_type", "=", "code", "&", "scope", "=", "id">>

\* the authorization URL as the provider's library builds it, no state added
HomeLocationWithoutState == URLToString(NewURL(GetAuthorizationUrl))

\* the Location of the redirect sent by GET /
HomeLocation ==
    URLToString(SearchParamsAppend(NewURL(GetAuthorizationUrl), "state",
                                   JSONStringify(HerokuOrigin(HEROKU_APP_NAME))))

-----------------------------------------------------------------------------
(* GET /oauth2/callback: the synchronous part *)

\* url.format( { protocol, hostname, pathname, query } )
UrlFormat(protocol, hostname, pathname, pairs) ==
    <<protocol, hostname, pathname>>
    \o (IF pairs = <<>> THEN <<>> ELSE <<"?">> \o SerializeParams(pairs))

\* a comparison of the origins instead of the hostnames
IsLocalByOrigin(redirectURL, requestURL) ==
    /\ redirectURL.protocol = requestURL.protocol
    /\ redirectURL.hostname = requestURL.hostname

\* if ( redirectURL.hostname === requestURL.hostname )
IsLocal(redirectURL, requestURL) == redirectURL.hostname = requestURL.hostname

\* the else branch: the URL the request is redirected on to
ForwardTarget(redirectURL, query) ==
    URLToString(
        SearchParamsAppend(
            SearchParamsAppend([redirectURL EXCEPT !.pathname = "/oauth2/callback"],
                               "state", ToStr(query.state)),
            "code", ToStr(query.code)))

\* The handler up to the branch: what it throws, or which branch it takes.
Route(protocol, host, pairs) ==
    LET query == [state |-> QueryGet(pairs, "state"), code |-> QueryGet(pairs, "code")]
        requestURL == NewURL(UrlFormat(protocol, host, "/oauth2/callback", pairs))
        state == JSONParse(ToStr(query.state))
        redirectURL == NewURL(ToStr(state.redirectURL))
    IN  IF ~state.ok THEN [outcome |-> "throw", err |-> "SyntaxError", target |-> NoLocation]
        ELSE IF ~redirectURL.ok
             THEN [outcome |-> "throw", err |-> "TypeError", target |-> NoLocation]
        ELSE IF IsLocal(redirectURL, requestURL)
             THEN [outcome |-> "LOCAL", err |-> "none", target |-> NoLocation]
        ELSE [outcome |-> "FORWARD", err |-> "none",
              target |-> ForwardTarget(redirectURL, query)]

-----------------------------------------------------------------------------
(* Inputs *)

RequestHosts == {"app.herokuapp.com", "APP.herokuapp.com", "www.example.com"}

\* req.protocol: the platform's router terminates TLS and 'trust proxy' is
\* not set, so express sees plain http
Protocols == {"http://"}

\* state texts a browser may deliver
StateTexts ==
    { <<"{", "https://", "app.herokuapp.com">>,                              \* cut short
      <<"{", "}">>,                                                        \* no redirectURL
      JSONStringify(<<"https://", "app.herokuapp.com">>),
      JSONStringify(<<"https://", "other.herokuapp.com", "/x">>),
      JSONStringify(<<"https://", "other.herokuapp.com", "?", "state", "=", "x">>) }

CodeTexts == { <<"A", "&", "B">> }

\* the query strings of the callback requests: state and code, each optional
CallbackQueries ==
    LET states == {<<>>} \cup { <<[k |-> "state", v |-> t]>> : t \in StateTexts }
        codes == {<<>>} \cup { <<[k |-> "code", v |-> t]>> : t \in CodeTexts }
    IN  { c \o s : s \in states, c \in codes }

\* the callback requests: every query on the instance's own host, and the
\* complete query of a flow started here on the other hosts
OwnFlowQuery ==
    <<[k |-> "code", v |-> <<"A", "&", "B">>],
      [k |-> "state", v |-> JSONStringify(<<"https://", "app.herokuapp.com">>)]>>

CallbackRequests ==
    { [host |-> "app.herokuapp.com", pairs |-> q] : q \in CallbackQueries }
    \cup { [host |-> h, pairs |-> OwnFlowQuery] : h \in RequestHosts }

\* stdout of a CLI run that exits 0
SessionUrl == <<"https://org.my.salesforce.com/secret">>
InstanceUrl == <<"https://org.my.salesforce.com">>

NoOutput == [json |-> FALSE, hasResult |-> FALSE, url |-> Undef]
JsonOutput(hasResult, url) == [json |-> TRUE, hasResult |-> hasResult, url |-> url]

StoreOutputs == { NoOutput, JsonOutput(TRUE, Str(InstanceUrl)) }
OpenOutputs ==
    { NoOutput, JsonOutput(FALSE, Undef), JsonOutput(TRUE, Undef),
      JsonOutput(TRUE, Str(SessionUrl)) }

\* Route, worked out once for the requests above
RouteOf ==
    [protocol \in Protocols, c \in CallbackRequests |-> Route(protocol, c.host, c.pairs)]

-----------------------------------------------------------------------------
(* State *)

Idle ==
    [pc |-> "idle", route |-> "none", host |-> "", pairs |-> <<>>,
     decision |-> "none", err |-> "none", responses |-> <<>>,
     sfdxAuthUrlFileData |-> JSUndefined, wrote |-> JSUndefined,
     fileHandle |-> "none", storeRead |-> JSUndefined,
     storeResult |-> NoOutput, openResult |-> NoOutput, steps |-> <<>>]

Init ==
    /\ env \in [SFDX_AUTH_URL : {JSUndefined, "", EnvCred},
                raFile : {JSUndefined, "", RaCred}]
    /\ file = [exists |-> FALSE, content |-> ""]
    /\ alias = "none"
    /\ running = {}
    /\ req = [r \in Reqs |-> Idle]

\* express hands a new request to a handler; requests are numbered as they arrive
Accepts(r) ==
    /\ req[r].pc = "idle"
    /\ r > 1 => req[r - 1].pc # "idle"

\* the request record after the handler has sent `response`
Respond(rq, response) ==
    [rq EXCEPT !.responses = Append(@, response),
               !.steps = Append(@, "respond"),
               !.pc = "done"]

\* a handleError that logs the error and sends nothing
FailSilently(rq, err) == [rq EXCEPT !.err = err, !.pc = "done"]

\* handleError( err, res ) called for the request
Fail(rq, err) == Respond([rq EXCEPT !.err = err], HandleError(err))

-----------------------------------------------------------------------------
(* app.get( '/' ) *)

Home(r, host) ==
    /\ Accepts(r)
    /\ req' = [req EXCEPT ![r] =
                 Respond([Idle EXCEPT !.route = "/", !.host = host],
                         Redirect(HomeLocation))]
    /\ UNCHANGED <<env, file, alias, running>>

-----------------------------------------------------------------------------
(* app.get( '/oauth2/callback' ) *)

\* a forward branch that falls through into the exchange after its redirect
ForwardAndAuthorize(rq, target) ==
    [Respond([rq EXCEPT !.decision = "FORWARD"], Redirect(target))
        EXCEPT !.pc = "authorize", !.steps = Append(@, "authorize")]

\* the else branch: one res.redirect and nothing after it
Forward(rq, target) == Respond([rq EXCEPT !.decision = "FORWARD"], Redirect(target))

\* The synchronous part: throws, forwards, or calls sfClient.authorize.
Callback(r, protocol, host, pairs) ==
    /\ Accepts(r)
    /\ LET d == RouteOf[protocol, [host |-> host, pairs |-> pairs]]
           rq == [Idle EXCEPT !.route = "/oauth2/callback", !.host = host,
                              !.pairs = pairs]
       IN  CASE d.outcome = "throw" ->
                  \E production \in BOOLEAN :
                      req' = [req EXCEPT ![r] =
                                Respond([rq EXCEPT !.err = d.err],
                                        ExpressDefaultError(d.err, production))]
             [] d.outcome = "FORWARD" ->
                  req' = [req EXCEPT ![r] = Forward(rq, d.target)]
             [] OTHER ->
                  req' = [req EXCEPT ![r] =
                            [rq EXCEPT !.decision = "LOCAL", !.pc = "authorize",
                                       !.steps = <<"authorize">>]]
    /\ UNCHANGED <<env, file, alias, running>>

-----------------------------------------------------------------------------
(* The callback of sfClient.authorize and the promise chain in it *)

\* a chain that reads the review app's file whatever the environment holds
ReadsRaFileAlways(data) == TRUE

\* if ( !sfdxAuthUrlFileData ): the chain reads the review app's file
ReadsRaFile(data) == Falsy(data)

\* a chain that runs each of its steps a second time
StepAgain(rq, name, pc) == [rq EXCEPT !.steps = @ \o <<name, name>>, !.pc = pc]

\* a step of the chain has run: note it, move to the next await
Step(rq, name, pc) == [rq EXCEPT !.steps = Append(@, name), !.pc = pc]

\* a chain that does not wait for `finished` before the next exec
ExecWithoutWaiting(procs, r, finished, command) == procs \cup {<<r, command>>}

\* exec( command ) of the next then-callback, once `finished` has exited
Exec(procs, r, finished, command) == (procs \ {<<r, finished>>}) \cup {<<r, command>>}

\* sfClient.authorize calls back: with err, or with userInfo; then the first
\* then-callback runs and either awaits fsp.readFile or goes on to fsp.open.
\* Nothing after this point reads req.hostname or req.query: they are dropped.
AuthorizeCallback(r, err) ==
    /\ req[r].pc = "authorize"
    /\ req' = [req EXCEPT ![r] =
         IF err # "none" THEN Fail([@ EXCEPT !.host = "", !.pairs = <<>>], err)
         ELSE LET rq == [@ EXCEPT !.sfdxAuthUrlFileData = env.SFDX_AUTH_URL,
                                  !.host = "", !.pairs = <<>>]
              IN  IF ReadsRaFile(rq.sfdxAuthUrlFileData)
                  THEN Step(rq, "readFile", "readFile")
                  ELSE Step(rq, "open", "open")]
    /\ UNCHANGED <<env, file, alias, running>>

\* fsp.readFile( `vendor/sfdx/ra-${HEROKU_APP_NAME}` ) settles
ReadFileDone(r, err) ==
    /\ req[r].pc = "readFile"
    /\ err = "ENOENT" <=> env.raFile = JSUndefined
    /\ req' = [req EXCEPT ![r] =
         IF err # "none" THEN Fail(@, err)
         ELSE Step([@ EXCEPT !.sfdxAuthUrlFileData = env.raFile], "open", "open")]
    /\ UNCHANGED <<env, file, alias, running>>

\* fsp.open( sfdxAuthUrlFilePath, 'w' ) settles: the file exists and is empty,
\* and the request holds a FileHandle, which no later step closes or syncs
OpenDone(r, err) ==
    /\ req[r].pc = "open"
    /\ IF err # "none"
       THEN /\ req' = [req EXCEPT ![r] = Fail(@, err)]
            /\ UNCHANGED file
       ELSE /\ req' = [req EXCEPT ![r] =
                  Step([@ EXCEPT !.fileHandle = "open"], "writeFile", "writeFile")]
            /\ file' = [exists |-> TRUE, content |-> ""]
    /\ UNCHANGED <<env, alias, running>>

\* fileHandle.writeFile( sfdxAuthUrlFileData ) settles; on success the next
\* then-callback starts sfdx force:auth:sfdxurl:store
WriteFileDone(r, err) ==
    /\ req[r].pc = "writeFile"
    /\ IF err # "none"
       THEN /\ req' = [req EXCEPT ![r] = Fail(@, err)]
            /\ UNCHANGED <<file, running>>
       ELSE /\ req' = [req EXCEPT ![r] =
                  Step(Step([@ EXCEPT !.wrote = req[r].sfdxAuthUrlFileData], "written", "store"),
                       "storeStart", "store")]
            /\ file' = [file EXCEPT !.content = req[r].sfdxAuthUrlFileData]
            /\ running' = Exec(running, r, "none", "store")
    /\ UNCHANGED <<env, alias>>

\* a file of its own for every request: the store command reads what the
\* request wrote
SfdxUrlFileOfRequest(r) == req[r].wrote

\* --sfdxurlfile "vendor/sfdx/open-app-sfdxurl": what the store command reads is
\* what the one file of that name holds when it runs
SfdxUrlFile(r) == file.content

\* a chain that removes the file once the store command has used it
UnlinkAfterStore(f) == [exists |-> FALSE, content |-> ""]

\* the then-callbacks and the catch after the store command: none of them
\* names the file again, it stays as it is
AfterStore(f) == f

\* sfdx force:auth:sfdxurl:store exits.  It has read the file; with exit code 0
\* the alias sfdxorg names that credential, and the next then-callback starts
\* sfdx force:org:open without looking at the output.
StoreDone(r, exit, stdout) ==
    /\ req[r].pc = "store"
    /\ IF exit # 0
       THEN /\ req' = [req EXCEPT ![r] = Fail(Step(@, "storeFail", "store"), "store exit 1")]
            /\ running' = running \ {<<r, "store">>}
            /\ UNCHANGED alias
       ELSE /\ req' = [req EXCEPT ![r] =
                  Step(Step([@ EXCEPT !.storeResult = stdout,
                                      !.storeRead = SfdxUrlFile(r)],
                            "storeEnd", "org:open"),
                       "openStart", "org:open")]
            /\ running' = Exec(running, r, "store", "org:open")
            /\ alias' = SfdxUrlFile(r)
    /\ file' = AfterStore(file)
    /\ UNCHANGED env

\* the last then-callback reading the output of the store command instead
LoginUrlOfStore(storeResult, openResult) ==
    IF ~storeResult.json THEN [err |-> "SyntaxError", url |-> Undef]
    ELSE IF ~storeResult.hasResult THEN [err |-> "TypeError", url |-> Undef]
    ELSE [err |-> "none", url |-> storeResult.url]

\* jsonResult.result.url of the last then-callback: a SyntaxError from
\* JSON.parse, a TypeError when result is missing, else the value handed to
\* res.redirect (undefined when result has no url)
LoginUrl(storeResult, openResult) ==
    IF ~openResult.json THEN [err |-> "SyntaxError", url |-> Undef]
    ELSE IF ~openResult.hasResult THEN [err |-> "TypeError", url |-> Undef]
    ELSE [err |-> "none", url |-> openResult.url]

\* sfdx force:org:open exits; the last then-callback or the catch runs
OpenOrgDone(r, exit, stdout) ==
    /\ req[r].pc = "org:open"
    /\ running' = running \ {<<r, "org:open">>}
    /\ req' = [req EXCEPT ![r] =
         IF exit # 0 THEN Fail(Step(@, "openFail", "org:open"), "org:open exit 1")
         ELSE LET rq == Step([@ EXCEPT !.openResult = stdout], "openEnd", "org:open")
                  login == LoginUrl(rq.storeResult, rq.openResult)
              IN  IF login.err # "none" THEN Fail(rq, login.err)
                  ELSE Respond(rq, Redirect(ToStr(login.url)))]
    /\ UNCHANGED <<env, file, alias>>

-----------------------------------------------------------------------------

AuthorizeErrors == {"none", "invalid_grant"}
FsErrors == {"none", "EACCES"}
ReadErrors == {"none", "ENOENT", "EACCES"}
ExitCodes == {0, 1}

Next ==
    \E r \in Reqs :
        \/ \E host \in RequestHosts : Home(r, host)
        \/ \E protocol \in Protocols, c \in CallbackRequests :
                Callback(r, protocol, c.host, c.pairs)
        \/ \E err \in AuthorizeErrors : AuthorizeCallback(r, err)
        \/ \E err \in ReadErrors : ReadFileDone(r, err)
        \/ \E err \in FsErrors : OpenDone(r, err)
        \/ \E err \in FsErrors : WriteFileDone(r, err)
        \/ \E exit \in ExitCodes, stdout \in StoreOutputs : StoreDone(r, exit, stdout)
        \/ \E exit \in ExitCodes, stdout \in OpenOutputs : OpenOrgDone(r, exit, stdout)

Spec == Init /\ [][Next]_vars

\* what request r is waiting for settles: sfClient.authorize calls back, the
\* promise of the file operation settles, the CLI command exits
Settles(r) ==
    \/ \E err \in AuthorizeErrors : AuthorizeCallback(r, err)
    \/ \E err \in ReadErrors : ReadFileDone(r, err)
    \/ \E err \in FsErrors : OpenDone(r, err)
    \/ \E err \in FsErrors : WriteFileDone(r, err)
    \/ \E exit \in ExitCodes, stdout \in StoreOutputs : StoreDone(r, exit, stdout)
    \/ \E exit \in ExitCodes, stdout \in OpenOutputs : OpenOrgDone(r, exit, stdout)

\* a review app: no SFDX_AUTH_URL, the credential is in the file of the
\* buildpack, so that the chain of a request has every one of its steps
ReviewAppInit == Init /\ env = [SFDX_AUTH_URL |-> JSUndefined, raFile |-> RaCred]

\* The program when the provider, the file system and the CLI always come back.
\* The handler sets no timeout, so this is an assumption about the three; the
\* event loop runs a callback once what it waits for has settled.
FairSpec == ReviewAppInit /\ [][Next]_vars /\ \A r \in Reqs : WF_vars(Settles(r))

-----------------------------------------------------------------------------
(* What the claims speak about *)

Callbacks == { r \in Reqs : req[r].route = "/oauth2/callback" }

\* the request still holds the query and host it arrived with
HoldsInputs(r) == req[r].host # ""

InState(r) == QueryGet(req[r].pairs, "state")
InCode(r) == QueryGet(req[r].pairs, "code")

\* the state parameter parses as JSON and yields a URL
StateURL(r) == NewURL(ToStr(JSONParse(ToStr(InState(r))).redirectURL))
ValidState(r) == JSONParse(ToStr(InState(r))).ok /\ StateURL(r).ok

\* host names are compared without regard to letter case
SameHostname(a, b) == ToLower(a) = ToLower(b)

Has(r, step) == \E i \in 1..Len(req[r].steps) : req[r].steps[i] = step
At(r, step) == CHOOSE i \in 1..Len(req[r].steps) : req[r].steps[i] = step
Before(r, a, b) == Has(r, a) /\ Has(r, b) /\ At(r, a) < At(r, b)

Redirected(r) == \E i \in 1..Len(req[r].responses) : req[r].responses[i].status = 302

GenericError == [status |-> 403, body |-> "Unexpected internal error", location |-> NoLocation]

-----------------------------------------------------------------------------
(* C1 *)

\* C1: a callback whose state parses as JSON with a valid redirectURL is decided
\* LOCAL (it goes on to sfClient.authorize, nothing is sent yet) exactly when the
\* hostname of state.redirectURL is the hostname of the request, and FORWARD
\* (answered with one redirect) otherwise; there is no third outcome.
C1_RoutingDecision ==
    \A r \in Callbacks :
        (HoldsInputs(r) /\ ValidState(r)) =>
            /\ req[r].decision \in {"LOCAL", "FORWARD"}
            /\ req[r].decision = "LOCAL" <=> SameHostname(StateURL(r).hostname, req[r].host)
            /\ req[r].decision = "LOCAL" =>
                   /\ Has(r, "authorize")
                   /\ req[r].pc = "authorize" => req[r].responses = <<>>
            /\ req[r].decision = "FORWARD" =>
                   /\ req[r].pc = "done"
                   /\ Len(req[r].responses) = 1
                   /\ req[r].responses[1].status = 302
                   /\ ~Has(r, "authorize")

\* a request to the upper-case host is decided LOCAL and another is forwarded
C1_Witness ==
    /\ \E r \in Callbacks :
           /\ req[r].host = "APP.herokuapp.com" /\ ValidState(r)
           /\ req[r].decision = "LOCAL" /\ req[r].pc = "authorize"
    /\ \E r \in Callbacks :
           /\ HoldsInputs(r) /\ ValidState(r)
           /\ req[r].decision = "FORWARD" /\ req[r].pc = "done"

-----------------------------------------------------------------------------
(* C2 *)

\* the Location of the forward, parsed as the receiving instance parses it
ForwardLocation(r) == NewURL(req[r].responses[1].location)

\* C2: on FORWARD the redirect target is state.redirectURL with its path replaced
\* by /oauth2/callback, and it carries the inbound state and code, each once and
\* with exactly the value received.
C2_ForwardPreservesQuery ==
    \A r \in Callbacks :
        (req[r].decision = "FORWARD" /\ InCode(r).t = "string") =>
            /\ ForwardLocation(r).ok
            /\ ForwardLocation(r).protocol = StateURL(r).protocol
            /\ ForwardLocation(r).hostname = StateURL(r).hostname
            /\ ForwardLocation(r).pathname = "/oauth2/callback"
            /\ QueryGet(ForwardLocation(r).search, "state") = InState(r)
            /\ QueryGet(ForwardLocation(r).search, "code") = InCode(r)

\* the same, for the redirect URLs that bring no state or code parameter of their own
C2_ForwardPreservesQueryOfPlainURL ==
    \A r \in Callbacks :
        (/\ req[r].decision = "FORWARD" /\ InCode(r).t = "string"
         /\ QueryGet(StateURL(r).search, "state") = Undef
         /\ QueryGet(StateURL(r).search, "code") = Undef) =>
            /\ ForwardLocation(r).ok
            /\ ForwardLocation(r).pathname = "/oauth2/callback"
            /\ QueryGet(ForwardLocation(r).search, "state") = InState(r)
            /\ QueryGet(ForwardLocation(r).search, "code") = InCode(r)

-----------------------------------------------------------------------------
(* C3 *)

Locals == { r \in Callbacks : req[r].decision = "LOCAL" }

\* the failures of the steps, as section 4 of the specification lists them
ExchangeFailed(r) == req[r].err = "invalid_grant"
MaterializeFailed(r) == req[r].err \in {"ENOENT", "EACCES"}
StoreFailed(r) == Has(r, "storeFail") \/ (Has(r, "storeEnd") /\ ~req[r].storeResult.json)
OpenFailed(r) ==
    \/ Has(r, "openFail")
    \/ /\ Has(r, "openEnd")
       /\ \/ ~req[r].openResult.json
          \/ ~req[r].openResult.hasResult
          \/ req[r].openResult.url = Undef

\* C3: a LOCAL callback in which the provider exchange, the credential
\* materialization, CLI Step A or CLI Step B failed ends with exactly one
\* response, the 403 with the fixed body, and sends no redirect.
C3_EveryFailureIsGeneric403 ==
    \A r \in Locals :
        (/\ req[r].pc = "done"
         /\ ExchangeFailed(r) \/ MaterializeFailed(r) \/ StoreFailed(r) \/ OpenFailed(r)) =>
            /\ req[r].responses = <<GenericError>>
            /\ ~Redirected(r)

\* what does hold: an error handed to handleError is answered once, with the
\* fixed body and not with its own text
RaisedErrorIsGeneric403 ==
    \A r \in Locals :
        req[r].err # "none" =>
            /\ req[r].pc = "done"
            /\ req[r].responses = <<GenericError>>
            /\ req[r].responses[1].body # req[r].err

-----------------------------------------------------------------------------
(* C4 *)

\* C4: after a successful exchange, when SFDX_AUTH_URL is set and not empty the
\* string written to the credential file is that value and the per-instance file
\* is not read, whether or not it exists; the per-instance file is read only
\* when SFDX_AUTH_URL is absent or empty.
C4_EnvironmentPreferred ==
    \A r \in Locals :
        /\ Has(r, "readFile") => Falsy(env.SFDX_AUTH_URL)
        /\ (Has(r, "written") /\ ~Falsy(env.SFDX_AUTH_URL)) =>
               /\ req[r].wrote = env.SFDX_AUTH_URL
               /\ ~Has(r, "readFile")

\* both sources hold a credential and the request has written the file
C4_Witness ==
    \E r \in Locals :
        /\ env.SFDX_AUTH_URL = EnvCred /\ env.raFile = RaCred
        /\ Has(r, "written") /\ req[r].wrote = EnvCred

-----------------------------------------------------------------------------
(* C5 *)

Homes == { r \in Reqs : req[r].route = "/" }

\* new URL( location ), worked out once for the Location of GET /
HomeLocationURL == NewURL(HomeLocation)
LocationURL(location) ==
    IF location = HomeLocation THEN HomeLocationURL ELSE NewURL(location)

\* the state parameter of the redirect sent by GET /
HomeState(r) == QueryGet(LocationURL(req[r].responses[1].location).search, "state")

\* how a callback that brings the state `state` back is routed on `host`
RoutedWith(state, host) ==
    Route("http://", host, <<[k |-> "state", v |-> ToStr(state)]>>).outcome

\* the same, worked out once for the state of the Location of GET /
HomeLocationRouted ==
    [host \in RequestHosts |->
        RoutedWith(QueryGet(HomeLocationURL.search, "state"), host)]

\* how a callback that brings the state of request r back is routed on `host`
RoutedBack(r, host) ==
    IF req[r].responses[1].location = HomeLocation /\ host \in RequestHosts
    THEN HomeLocationRouted[host]
    ELSE RoutedWith(HomeState(r), host)

\* GET / answers with one redirect to the provider, carrying the instance's
\* origin as state, and does nothing else
HomeRedirects(r) ==
    /\ req[r].pc = "done"
    /\ req[r].err = "none"
    /\ req[r].steps = <<"respond">>
    /\ Len(req[r].responses) = 1
    /\ req[r].responses[1].status = 302
    /\ LocationURL(req[r].responses[1].location).ok
    /\ LocationURL(req[r].responses[1].location).hostname = "login.salesforce.com"
    /\ HomeState(r) = Str(JSONStringify(HerokuOrigin(HEROKU_APP_NAME)))

\* C5 as stated: ... so that a callback carrying that state and arriving at the
\* host the GET / request was made to is decided LOCAL.
C5_HomeStateRoutesBackToRequestHost ==
    \A r \in Homes : HomeRedirects(r) /\ RoutedBack(r, req[r].host) = "LOCAL"

\* C5, amended: every GET / ends with exactly one redirect to the provider whose
\* state is the JSON of {redirectURL: https://<HEROKU_APP_NAME>.herokuapp.com};
\* a callback carrying that state is decided LOCAL exactly on that host,
\* whatever host GET / was requested on, and FORWARD elsewhere; GET / sends no
\* error, writes no file and runs no CLI.
C5_HomeStateRoutesBackToHerokuHost ==
    \A r \in Homes :
        /\ HomeRedirects(r)
        /\ \A h \in RequestHosts :
              RoutedBack(r, h) =
                  IF SameHostname(h, HerokuOrigin(HEROKU_APP_NAME)[2]) THEN "LOCAL" ELSE "FORWARD"

\* GET / was requested on a host that is not the instance's herokuapp.com name
C5_Witness ==
    \E r \in Homes : req[r].pc = "done" /\ req[r].host = "www.example.com"

-----------------------------------------------------------------------------
(* C6 *)

\* exchange, materialization and both CLI steps succeeded
AllSucceeded(r) ==
    /\ req[r].pc = "done" /\ req[r].err = "none"
    /\ Has(r, "openEnd") /\ ~StoreFailed(r) /\ ~OpenFailed(r)

Credentials == {"", EnvCred, RaCred}

\* C6: when every step of a LOCAL callback succeeds the request ends with
\* exactly one redirect, to result.url of the output of CLI Step B and not to a
\* value of Step A's output; the URL is kept nowhere: the file and the alias
\* hold credentials only.
C6_RedirectsToStepBUrl ==
    \A r \in Locals :
        AllSucceeded(r) =>
            /\ req[r].responses = <<Redirect(ToStr(req[r].openResult.url))>>
            /\ req[r].responses[1].location # ToStr(req[r].storeResult.url)
            /\ file.content \in Credentials
            /\ alias \in Credentials

\* a request was redirected to the session URL
C6_Witness ==
    \E r \in Locals :
        /\ AllSucceeded(r)
        /\ req[r].responses = <<Redirect(SessionUrl)>>
        /\ req[r].storeResult.url = Str(InstanceUrl)

-----------------------------------------------------------------------------
(* C7 *)

\* C7: within a LOCAL callback the write of the credential file completes
\* before CLI Step A starts, Step A has ended with exit code 0 before Step B
\* starts, Step B has ended before the redirect is sent, and the two steps of a
\* request never run at the same time.
C7_StrictOrder ==
    \A r \in Reqs :
        /\ Has(r, "storeStart") => Before(r, "writeFile", "written") /\ Before(r, "written", "storeStart")
        /\ Has(r, "openStart") => Before(r, "storeStart", "storeEnd") /\ Before(r, "storeEnd", "openStart")
        /\ (r \in Locals /\ Redirected(r)) =>
               Before(r, "openStart", "openEnd") /\ Before(r, "openEnd", "respond")
        /\ ~(<<r, "store">> \in running /\ <<r, "org:open">> \in running)
        /\ <<r, "store">> \in running <=> req[r].pc = "store"
        /\ <<r, "org:open">> \in running <=> req[r].pc = "org:open"

\* Step B of a request is running, Step A having ended
C7_Witness ==
    \E r \in Locals :
        /\ <<r, "org:open">> \in running
        /\ Has(r, "storeEnd") /\ Has(r, "written")

-----------------------------------------------------------------------------
(* C8 *)

\* C8: a callback whose state is missing, is not JSON or yields no usable
\* redirectURL is answered like every other failure, with the generic 403; no
\* routing decision is taken and no exchange, file write or CLI step happens.
C8_MalformedStateIsGeneric403 ==
    \A r \in Callbacks :
        (HoldsInputs(r) /\ ~ValidState(r)) =>
            /\ req[r].responses = <<GenericError>>
            /\ req[r].decision = "none"
            /\ req[r].steps = <<"respond">>

-----------------------------------------------------------------------------
(* C9 *)

\* C9: when CLI Step A exits non-zero or prints something that is not JSON,
\* the request ends with the generic 403 and CLI Step B is never started.
C9_StoreFailureStopsTheChain ==
    \A r \in Locals :
        StoreFailed(r) =>
            /\ ~Has(r, "openStart")
            /\ req[r].pc = "done"
            /\ req[r].responses = <<GenericError>>

-----------------------------------------------------------------------------
(* C10 *)

\* C10: when CLI Step B exits non-zero, prints something that is not JSON, or
\* prints JSON without result.url, the request ends with the generic 403 and no
\* redirect is sent.
C10_OpenFailureIsGeneric403 ==
    \A r \in Locals :
        OpenFailed(r) =>
            /\ req[r].responses = <<GenericError>>
            /\ ~Redirected(r)

-----------------------------------------------------------------------------
(* C11 *)

\* neither source gave the request a credential: SFDX_AUTH_URL was unset or
\* empty, and the read of the review app's file has settled with an error or
\* with nothing in the file
NoCredential(r) ==
    /\ Has(r, "readFile")
    /\ req[r].pc # "readFile"
    /\ Falsy(req[r].sfdxAuthUrlFileData)

\* C11: when SFDX_AUTH_URL is absent or empty and the review app's file gives
\* no data (it is missing, cannot be read, or is empty), the request ends with
\* the generic 403, the fixed file is neither opened nor written and neither
\* CLI step is started.
C11_NoCredentialIsGeneric403 ==
    \A r \in Locals :
        NoCredential(r) =>
            /\ req[r].pc = "done"
            /\ req[r].responses = <<GenericError>>
            /\ ~Has(r, "open") /\ ~Has(r, "writeFile")
            /\ ~Has(r, "storeStart") /\ ~Has(r, "openStart")

\* what does hold: a file that is missing or cannot be read ends the request
\* with the generic 403 before the fixed file is opened
FailedReadIsGeneric403 ==
    \A r \in Locals :
        (Has(r, "readFile") /\ MaterializeFailed(r) /\ ~Has(r, "open")) =>
            /\ req[r].responses = <<GenericError>>
            /\ req[r].steps = <<"authorize", "readFile", "respond">>

-----------------------------------------------------------------------------
(* C12 *)

\* the step in which the store command of request r exits with code 0
StoreExits(r) == req[r].pc = "store" /\ req'[r].pc = "org:open"

\* C12: nothing keeps two LOCAL callbacks apart.  A request can open the fixed
\* file, and its CLI Step A can run, whatever the other requests are doing;
\* Step A reads the one fixed file as it is when the step runs, whichever
\* request opened or wrote it last, and leaves the one alias naming what it
\* read, whichever request's Step B is running.  So Step A can read the file
\* between the open and the write of another request, and Step B can run
\* against the alias stored by another request's Step A.
C12_FileAndAliasAreShared ==
    /\ [](\A r \in Reqs :
            /\ req[r].pc = "open" => ENABLED OpenDone(r, "none")
            /\ req[r].pc = "store" => ENABLED StoreDone(r, 0, NoOutput))
    /\ [][\A r \in Reqs :
            StoreExits(r) => (req'[r].storeRead = file.content /\ alias' = file.content)]_vars

\* CLI Step B of request r is running.  The request wrote its credential, but
\* its Step A read the file empty, as the open of request o had left it, and
\* the alias now names what the Step A of request o stored afterwards.
C12_Witness ==
    \E r \in Locals, o \in Locals :
        /\ r # o
        /\ req[r].pc = "org:open" /\ Has(o, "storeEnd")
        /\ req[r].wrote # "" /\ req[r].storeRead = ""
        /\ req[o].storeRead = req[o].wrote
        /\ alias = req[o].storeRead
        /\ alias # req[r].storeRead

-----------------------------------------------------------------------------
(* C13 *)

\* at most one request is between its open of the fixed file and the end of
\* its CLI Step A
OneAtATime ==
    Cardinality({ r \in Reqs : req[r].pc \in {"open", "writeFile", "store"} }) <= 1

\* the program when the callbacks never overlap there
SerialSpec == Init /\ [][Next /\ OneAtATime']_vars

\* C13: when LOCAL callbacks are handled one at a time, then while CLI Step A
\* of a request runs the fixed file holds exactly the credential resolved for
\* that request, and the write is complete: the file has been flushed and
\* closed before Step A was started.
C13_FileCompleteBeforeStepA ==
    \A r \in Locals :
        (OneAtATime /\ req[r].pc = "store") =>
            /\ file.exists
            /\ file.content = req[r].sfdxAuthUrlFileData
            /\ req[r].fileHandle = "closed"

\* what does hold under SerialSpec: Step A finds the request's credential and
\* nothing else in the file
FileHoldsTheCredentialAtStepA ==
    \A r \in Locals :
        req[r].pc = "store" =>
            /\ file.exists
            /\ file.content = req[r].sfdxAuthUrlFileData

-----------------------------------------------------------------------------
(* C14 *)

\* how many times the request has noted `step`
Count(r, step) == Cardinality({ i \in 1..Len(req[r].steps) : req[r].steps[i] = step })

\* no step is noted twice: the steps are as many as the different steps
EachStepOnce(r) ==
    Cardinality({ req[r].steps[i] : i \in 1..Len(req[r].steps) }) = Len(req[r].steps)

\* C14: within one callback the provider exchange, the read of the review
\* app's file, the open and the write of the fixed file, CLI Step A and CLI
\* Step B are each started at most once, and one response is sent at most; when
\* the exchange fails the request goes straight to the generic 403, having
\* read and written no file and started no CLI step.
C14_NoRetry ==
    \A r \in Callbacks :
        /\ EachStepOnce(r)
        /\ ExchangeFailed(r) =>
              /\ req[r].steps = <<"authorize", "respond">>
              /\ req[r].responses = <<GenericError>>
              /\ req[r].wrote = JSUndefined /\ req[r].fileHandle = "none"

\* one request has run every step to the redirect, another has ended at the
\* failed exchange
C14_Witness ==
    \E r \in Locals, o \in Locals :
        /\ AllSucceeded(r) /\ Redirected(r)
        /\ ExchangeFailed(o) /\ req[o].pc = "done"

-----------------------------------------------------------------------------
(* C15 *)

Forwards == { r \in Callbacks : req[r].decision = "FORWARD" }

\* C15: a FORWARD callback is over with its one redirect.  The request takes
\* no step after it: the code is not exchanged, neither the review app's file
\* nor the fixed file is read, opened or written, and no CLI step is started;
\* the step that forwards leaves the file, the alias and the running commands
\* as they were.
C15_ForwardIsTerminal ==
    /\ [](\A r \in Forwards :
            /\ req[r].pc = "done"
            /\ req[r].steps = <<"respond">>
            /\ Len(req[r].responses) = 1 /\ Redirected(r)
            /\ req[r].sfdxAuthUrlFileData = JSUndefined /\ req[r].wrote = JSUndefined
            /\ req[r].fileHandle = "none" /\ req[r].storeRead = JSUndefined
            /\ \A command \in {"store", "org:open"} : <<r, command>> \notin running)
    /\ [][\A r \in Reqs :
            /\ (r \in Forwards' /\ r \notin Forwards) => UNCHANGED <<env, file, alias, running>>
            /\ r \in Forwards => req'[r] = req[r]]_vars

\* a callback has been forwarded, and the instance has since written the fixed
\* file for another request
C15_Witness ==
    \E r \in Forwards, o \in Locals :
        /\ Redirected(r) /\ ForwardLocation(r).pathname = "/oauth2/callback"
        /\ o > r /\ Has(o, "written")

-----------------------------------------------------------------------------
(* C16 *)

\* request r takes a step
Steps(r) == req'[r] # req[r]

\* C16: a callback reads its credential source once: the environment when the
\* chain starts, and the review app's file at most once.  The fixed file is
\* changed by the open and the write of a request and by nothing else: once a
\* request has written it, no later step of that request deletes, truncates or
\* rewrites it, the file is never removed, and what the request wrote stays in
\* it until another LOCAL callback opens the file.
C16_FileLeftAsWritten ==
    /\ [](\A r \in Locals :
            /\ Count(r, "authorize") <= 1 /\ Count(r, "readFile") <= 1
            /\ (Has(r, "written") /\ \A o \in Reqs \ {r} : ~Has(o, "writeFile")) =>
                  (file.exists /\ file.content = req[r].wrote))
    /\ [][/\ file.exists => file'.exists
          /\ file' # file => \E r \in Reqs : Steps(r) /\ req[r].pc \in {"open", "writeFile"}
          /\ \A r \in Reqs : (Has(r, "written") /\ Steps(r)) => file' = file]_vars

\* a request is over, its CLI steps done, and the credential it wrote is in the
\* fixed file
C16_Witness ==
    \E r \in Locals :
        /\ req[r].pc = "done" /\ Has(r, "openEnd")
        /\ Count(r, "readFile") = 1
        /\ req[r].wrote # "" /\ file.exists /\ file.content = req[r].wrote

-----------------------------------------------------------------------------
(* C17 *)

\* the handler has answered request r, once
Answered(r) == req[r].pc = "done" /\ Len(req[r].responses) = 1

-----------------------------------------------------------------------------
(* C18 *)

\* what the handler of the instance that receives the redirect of request r
\* does with it: the browser asks the host of the Location for its path and query
Forwarded(r) ==
    Route("http://", ForwardLocation(r).hostname, ForwardLocation(r).search)

\* C18: a flow is forwarded at most once.  The request made from the redirect
\* of a FORWARD arrives at the host that state.redirectURL names, with the
\* state it was sent with, so the instance there decides LOCAL and does not
\* forward again.
C18_ForwardedAtMostOnce ==
    \A r \in Forwards :
        /\ ForwardLocation(r).hostname = StateURL(r).hostname
        /\ QueryGet(ForwardLocation(r).search, "state") = InState(r)
        /\ Forwarded(r).outcome = "LOCAL"

\* what does hold: the receiving instance never forwards again, and it decides
\* LOCAL when the redirectURL of the state has no query of its own
NeverForwardedTwice ==
    \A r \in Forwards :
        /\ Forwarded(r).outcome # "FORWARD"
        /\ StateURL(r).search = <<>> => Forwarded(r).outcome = "LOCAL"

====
